---------------------------- MODULE Spec2Model ----------------------------
(***************************************************************************)
(* Model of the prefix-notation evaluator `pn` of src/src/lib.rs.          *)
(*                                                                         *)
(* A character is a one-character string, an expression and a token are    *)
(* sequences of characters.  An f64 is a record [k, s, n, d]: k = "num" is *)
(* the finite value s * n / d (n >= 0, d > 0, in lowest terms, so that     *)
(* n = 0 with s = -1 is the negative zero), k = "inf" the infinity of sign *)
(* s, k = "nan" the NaN.  Finite arithmetic is exact: the rounding of f64  *)
(* is not modelled.                                                        *)
(***************************************************************************)
EXTENDS Integers, Sequences, FiniteSets, TLC

VARIABLES expression, pc, split_expression, token, operands, ret

vars == <<expression, pc, split_expression, token, operands, ret>>

---------------------------------------------------------------------------
(* Bounds of the inputs.                                                   *)

\* longest expression drawn character by character
MaxLen == 5
\* most words of an expression drawn word by word
MaxTokens == 5

\* characters of the character-by-character inputs ("[" is an unavailable one)
Alphabet == {"+", "-", "*", "^", "5", " ", "["}
\* words of the word-by-word inputs
Words == {<<"-">>, <<"/">>, <<"%">>, <<"+", "+">>, <<"0">>, <<"-", "2">>, <<"5">>}

---------------------------------------------------------------------------
(* f64 values and their arithmetic.                                        *)

RECURSIVE Gcd(_, _)
Gcd(a, b) == IF b = 0 THEN a ELSE Gcd(b, a % b)

Num(s, n, d) == LET g == Gcd(n, d) IN [k |-> "num", s |-> s, n |-> n \div g, d |-> d \div g]
Inf(s) == [k |-> "inf", s |-> s, n |-> 0, d |-> 1]
NaN == [k |-> "nan", s |-> 1, n |-> 0, d |-> 1]
NoValue == [k |-> "none", s |-> 1, n |-> 0, d |-> 1]

IsZero(a) == a.k = "num" /\ a.n = 0
IsNonFinite(a) == a.k \in {"inf", "nan"}

FNeg(a) == IF a.k = "nan" THEN a ELSE [a EXCEPT !.s = 0 - a.s]

\* a + b
FAdd(a, b) ==
    IF a.k = "nan" \/ b.k = "nan" THEN NaN
    ELSE IF a.k = "inf" THEN (IF b.k = "inf" /\ b.s # a.s THEN NaN ELSE a)
    ELSE IF b.k = "inf" THEN b
    ELSE LET x == a.s * a.n * b.d + b.s * b.n * a.d
             den == a.d * b.d
         IN  IF x = 0 THEN Num(IF a.s = -1 /\ b.s = -1 THEN -1 ELSE 1, 0, 1)
             ELSE IF x < 0 THEN Num(-1, 0 - x, den)
             ELSE Num(1, x, den)

\* a - b
FSub(a, b) == FAdd(a, FNeg(b))

\* a * b
FMul(a, b) ==
    IF a.k = "nan" \/ b.k = "nan" THEN NaN
    ELSE IF a.k = "inf" \/ b.k = "inf"
         THEN (IF IsZero(a) \/ IsZero(b) THEN NaN ELSE Inf(a.s * b.s))
    ELSE Num(a.s * b.s, a.n * b.n, a.d * b.d)

\* a / b: no zero check, x / 0 is an infinity and 0 / 0 the NaN
FDiv(a, b) ==
    IF a.k = "nan" \/ b.k = "nan" THEN NaN
    ELSE IF a.k = "inf" THEN (IF b.k = "inf" THEN NaN ELSE Inf(a.s * b.s))
    ELSE IF b.k = "inf" THEN Num(a.s * b.s, 0, 1)
    ELSE IF IsZero(b) THEN (IF IsZero(a) THEN NaN ELSE Inf(a.s * b.s))
    ELSE Num(a.s * b.s, a.n * b.d, a.d * b.n)

\* a % b: the remainder of the truncated division, with the sign of a
FRem(a, b) ==
    IF a.k = "nan" \/ b.k = "nan" THEN NaN
    ELSE IF a.k = "inf" THEN NaN
    ELSE IF b.k = "inf" THEN a
    ELSE IF IsZero(b) THEN NaN
    ELSE Num(a.s, (a.n * b.d) % (b.n * a.d), a.d * b.d)

---------------------------------------------------------------------------
(* Results.                                                                *)

PolishError == {"FailedCalculate", "NotEnoughOperands",
                "UseUnavailableCharacter", "NotEnteredExoression"}

Ok(v) == [tag |-> "Ok", val |-> v, err |-> "none"]
Err(e) == [tag |-> "Err", val |-> NoValue, err |-> e]
\* no result yet
Running == [tag |-> "none", val |-> NoValue, err |-> "none"]
\* the panic of an index out of the bounds of a Vec
Panic == [tag |-> "Panic", val |-> NoValue, err |-> "none"]

---------------------------------------------------------------------------
(* Validator.                                                              *)

\* mutant: an input of spaces only counts as not entered
is_exoression_trimmed(exoression) ==
    \E i \in 1..Len(exoression) : exoression[i] # " "

is_exoression(exoression) == Len(exoression) # 0

\* the characters the class [^+\-*/%^1234567890 ] does not match
AvailableCharacters ==
    {"+", "-", "*", "/", "%", "^",
     "1", "2", "3", "4", "5", "6", "7", "8", "9", "0", " "}

is_unavailable_character(checked_string) ==
    \E i \in 1..Len(checked_string) : checked_string[i] \notin AvailableCharacters

\* mutant: the characters are not checked before the scan
syntax_check_no_scan(exoression) ==
    IF ~is_exoression(exoression) THEN Err("NotEnteredExoression")
    ELSE Ok(NoValue)

syntax_check(exoression) ==
    IF ~is_exoression(exoression) THEN Err("NotEnteredExoression")
    ELSE IF is_unavailable_character(exoression) THEN Err("UseUnavailableCharacter")
    ELSE Ok(NoValue)

---------------------------------------------------------------------------
(* Tokenizer.                                                              *)

\* the whitespace split_whitespace splits at; the space is the only
\* whitespace character syntax_check lets through
WhiteSpace == {" "}

\* the maximal runs of non-whitespace characters of s, left to right
RECURSIVE SplitFrom(_, _, _, _)
SplitFrom(s, i, word, acc) ==
    IF i > Len(s) THEN (IF word = <<>> THEN acc ELSE Append(acc, word))
    ELSE IF s[i] \in WhiteSpace
         THEN SplitFrom(s, i + 1, <<>>, IF word = <<>> THEN acc ELSE Append(acc, word))
    ELSE SplitFrom(s, i + 1, Append(word, s[i]), acc)

split_whitespace(s) == SplitFrom(s, 1, <<>>, <<>>)

DigitChars == <<"0", "1", "2", "3", "4", "5", "6", "7", "8", "9">>
IsDigit(c) == \E i \in 1..10 : DigitChars[i] = c
DigitValue(c) == (CHOOSE i \in 1..10 : DigitChars[i] = c) - 1

IsDigits(w) == Len(w) >= 1 /\ \A i \in 1..Len(w) : IsDigit(w[i])

RECURSIVE DecValue(_)
DecValue(w) ==
    IF w = <<>> THEN 0
    ELSE 10 * DecValue(SubSeq(w, 1, Len(w) - 1)) + DigitValue(w[Len(w)])

\* str::parse::<f64> on a word of the model's characters: an optional sign
\* and one or more digits; everything else is a parse error
ParseF64(word) ==
    IF word # <<>> /\ word[1] \in {"+", "-"} /\ IsDigits(Tail(word))
    THEN Ok(Num(IF word[1] = "-" THEN -1 ELSE 1, DecValue(Tail(word)), 1))
    ELSE IF IsDigits(word) THEN Ok(Num(1, DecValue(word), 1))
    ELSE Err("ParseFloatError")

Operand(v) == [tag |-> "Operand", val |-> v, ops |-> <<>>, err |-> "none"]
Operator(w) == [tag |-> "Operator", val |-> NoValue, ops |-> w, err |-> "none"]
KindErr(e) == [tag |-> "Err", val |-> NoValue, ops |-> <<>>, err |-> e]

\* mutant: the operator symbol is checked with the characters
parse_token_strict(word) ==
    LET parsed == ParseF64(word)
    IN  IF parsed.tag = "Ok" THEN Operand(parsed.val)
        ELSE IF word \in {<<"+">>, <<"-">>, <<"*">>, <<"/">>, <<"%">>}
             THEN Operator(word)
        ELSE KindErr("UseUnavailableCharacter")

parse_token(word) ==
    LET parsed == ParseF64(word)
    IN  IF parsed.tag = "Ok" THEN Operand(parsed.val)
        ELSE IF ~is_unavailable_character(word) THEN Operator(word)
        ELSE KindErr("UseUnavailableCharacter")

---------------------------------------------------------------------------
(* Evaluator.                                                              *)

\* mutant: the operands are taken in the other order
calculate_swapped(a, b, ops) ==
    CASE ops = <<"+">> -> Ok(FAdd(b, a))
      [] ops = <<"-">> -> Ok(FSub(b, a))
      [] ops = <<"*">> -> Ok(FMul(b, a))
      [] ops = <<"/">> -> Ok(FDiv(b, a))
      [] ops = <<"%">> -> Ok(FRem(b, a))
      [] OTHER -> Err("FailedCalculate")

\* mutant: a zero divisor is an error
calculate_zero_check(a, b, ops) ==
    CASE ops = <<"+">> -> Ok(FAdd(a, b))
      [] ops = <<"-">> -> Ok(FSub(a, b))
      [] ops = <<"*">> -> Ok(FMul(a, b))
      [] ops = <<"/">> -> IF IsZero(b) THEN Err("FailedCalculate") ELSE Ok(FDiv(a, b))
      [] ops = <<"%">> -> IF IsZero(b) THEN Err("FailedCalculate") ELSE Ok(FRem(a, b))
      [] OTHER -> Err("FailedCalculate")

\* mutant: an unknown symbol adds
calculate_lenient(a, b, ops) ==
    CASE ops = <<"-">> -> Ok(FSub(a, b))
      [] ops = <<"*">> -> Ok(FMul(a, b))
      [] ops = <<"/">> -> Ok(FDiv(a, b))
      [] ops = <<"%">> -> Ok(FRem(a, b))
      [] OTHER -> Ok(FAdd(a, b))

calculate(a, b, ops) ==
    CASE ops = <<"+">> -> Ok(FAdd(a, b))
      [] ops = <<"-">> -> Ok(FSub(a, b))
      [] ops = <<"*">> -> Ok(FMul(a, b))
      [] ops = <<"/">> -> Ok(FDiv(a, b))
      [] ops = <<"%">> -> Ok(FRem(a, b))
      [] OTHER -> Err("FailedCalculate")

\* mutant: one operand is enough
NotEnough_one(stack) == Len(stack) < 1

\* the guard of an operator token
NotEnough(stack) == Len(stack) < 2

\* operands.len() - k as an index: in the bounds of the Vec or not
InBounds(stack, k) == Len(stack) - k >= 0 /\ Len(stack) - k < Len(stack)

\* operands[operands.len() - k], the first element being operands[0]
At(stack, k) == stack[Len(stack) - k + 1]

\* mutant: only the top of the stack is drained
Drain2_top(stack) == SubSeq(stack, 1, Len(stack) - 1)

\* operands.drain(operands.len() - 2..operands.len())
Drain2(stack) == SubSeq(stack, 1, Len(stack) - 2)

\* the inputs drawn word by word: the words joined by one space
RECURSIVE Join(_)
Join(ws) ==
    IF ws = <<>> THEN <<>>
    ELSE IF Len(ws) = 1 THEN ws[1]
    ELSE ws[1] \o <<" ">> \o Join(Tail(ws))

CharInputs == UNION {[1..n -> Alphabet] : n \in 0..MaxLen}
WordInputs == {Join(ws) : ws \in UNION {[1..n -> Words] : n \in 0..MaxTokens}}
Inputs == CharInputs \cup WordInputs

Init ==
    /\ expression \in Inputs
    /\ pc = "syntax_check"
    /\ split_expression = <<>>
    /\ token = <<>>
    /\ operands = <<>>
    /\ ret = Running

\* pn, lines 113-119: the validation, then the split and the empty stack
SyntaxCheck ==
    /\ pc = "syntax_check"
    /\ LET checked == syntax_check(expression)
       IN  IF checked.tag = "Err"
           THEN /\ ret' = Err(checked.err)
                /\ pc' = "ret_syntax"
                /\ UNCHANGED <<split_expression, operands>>
           ELSE /\ split_expression' = split_whitespace(expression)
                /\ operands' = <<>>
                /\ pc' = "for"
                /\ UNCHANGED ret
    /\ UNCHANGED <<expression, token>>

\* what one pass of the loop body does with the stack: [ret, operands]
LoopBody(word, stack) ==
    LET kind == parse_token(word)
    IN  IF kind.tag = "Err" THEN [ret |-> Err(kind.err), operands |-> stack]
        ELSE IF kind.tag = "Operand"
             THEN [ret |-> Running, operands |-> Append(stack, kind.val)]
        ELSE IF NotEnough(stack)
             THEN [ret |-> Err("NotEnoughOperands"), operands |-> stack]
        ELSE IF ~(InBounds(stack, 1) /\ InBounds(stack, 2))
             THEN [ret |-> Panic, operands |-> stack]
        ELSE LET result == calculate(At(stack, 1), At(stack, 2), kind.ops)
             IN  IF result.tag = "Ok"
                 THEN [ret |-> Running,
                       operands |-> Append(Drain2(stack), result.val)]
                 ELSE [ret |-> Err(result.err), operands |-> stack]

\* pn, lines 121-152: one pass of the loop over the tokens, last token first
ScanToken ==
    /\ pc = "for"
    /\ split_expression # <<>>
    /\ LET word == split_expression[Len(split_expression)]
           step == LoopBody(word, operands)
       IN  /\ token' = word
           /\ split_expression' = SubSeq(split_expression, 1, Len(split_expression) - 1)
           /\ operands' = step.operands
           /\ ret' = step.ret
           /\ pc' = IF step.ret = Running THEN "for" ELSE "ret_for"
    /\ UNCHANGED expression

\* mutant: values left under the top are ignored
FinalResult_top(stack) ==
    IF Len(stack) >= 1 THEN Ok(stack[Len(stack)]) ELSE Err("FailedCalculate")

\* the result of lines 154-158
FinalResult(stack) ==
    IF Len(stack) = 1
    THEN (IF InBounds(stack, 1) THEN Ok(At(stack, 1)) ELSE Panic)
    ELSE Err("FailedCalculate")

\* pn, lines 154-158: the loop is over
Finish ==
    /\ pc = "for"
    /\ split_expression = <<>>
    /\ ret' = FinalResult(operands)
    /\ pc' = "ret_end"
    /\ UNCHANGED <<expression, split_expression, token, operands>>

Next == SyntaxCheck \/ ScanToken \/ Finish

Spec == Init /\ [][Next]_vars

Returned == pc \in {"ret_syntax", "ret_for", "ret_end"}

---------------------------------------------------------------------------
(* The reference: prefix expressions read left to right.                   *)

OperatorSymbols == {<<"+">>, <<"-">>, <<"*">>, <<"/">>, <<"%">>}

\* the tokens of the input
Tokens == split_whitespace(expression)

\* an integer literal: digits after an optional "-" (or "+", when plus)
IsLiteral(w, plus) ==
    \/ IsDigits(w)
    \/ Len(w) >= 2 /\ IsDigits(Tail(w)) /\ (w[1] = "-" \/ (plus /\ w[1] = "+"))

LiteralValue(w) ==
    IF w[1] = "-" THEN Num(-1, DecValue(Tail(w)), 1)
    ELSE IF w[1] = "+" THEN Num(1, DecValue(Tail(w)), 1)
    ELSE Num(1, DecValue(w), 1)

\* left op right
RefApply(op, left, right) ==
    CASE op = <<"+">> -> FAdd(left, right)
      [] op = <<"-">> -> FSub(left, right)
      [] op = <<"*">> -> FMul(left, right)
      [] op = <<"/">> -> FDiv(left, right)
      [] op = <<"%">> -> FRem(left, right)

RefFail == [ok |-> FALSE, val |-> NoValue, next |-> 0, dz |-> FALSE]

\* the prefix expression that starts at ts[i]: its value, the index after
\* it, and whether a "/" or "%" in it has a right operand equal to zero
RECURSIVE RefParse(_, _, _)
RefParse(ts, i, plus) ==
    IF i > Len(ts) THEN RefFail
    ELSE IF IsLiteral(ts[i], plus)
         THEN [ok |-> TRUE, val |-> LiteralValue(ts[i]), next |-> i + 1, dz |-> FALSE]
    ELSE IF ts[i] \notin OperatorSymbols THEN RefFail
    ELSE LET left == RefParse(ts, i + 1, plus)
         IN  IF ~left.ok THEN RefFail
             ELSE LET right == RefParse(ts, left.next, plus)
                  IN  IF ~right.ok THEN RefFail
                      ELSE [ok |-> TRUE,
                            val |-> RefApply(ts[i], left.val, right.val),
                            next |-> right.next,
                            dz |-> \/ left.dz
                                   \/ right.dz
                                   \/ ts[i] \in {<<"/">>, <<"%">>} /\ IsZero(right.val)]

\* ts is exactly one complete prefix expression
WellFormed(ts, plus) ==
    LET r == RefParse(ts, 1, plus) IN r.ok /\ r.next = Len(ts) + 1

RefValue(ts, plus) == RefParse(ts, 1, plus).val

Count(ts, P(_)) == Cardinality({i \in 1..Len(ts) : P(ts[i])})

---------------------------------------------------------------------------
(* Claims.                                                                 *)

\* C1: for every expression whose tokens are a well-formed prefix expression
\* of operators + - * / % and integer literals (with an optional "-"), pn
\* returns Ok of the value of the recursive left-to-right evaluation, the
\* first sub-expression being the left operand, and the operand stack then
\* holds exactly one value.
C1_WellFormedValue ==
    (Returned /\ WellFormed(Tokens, FALSE))
        => /\ pc = "ret_end"
           /\ ret = Ok(RefValue(Tokens, FALSE))
           /\ Len(operands) = 1

\* "- 5 - -2 0" and its like: a nested expression that returned 7
C1_Witness ==
    /\ pc = "ret_end"
    /\ Len(Tokens) = 5
    /\ WellFormed(Tokens, FALSE)
    /\ ret = Ok(Num(1, 7, 1))

\* the character set the documentation names: no "^"
DocumentedCharacters ==
    {"+", "-", "*", "/", "%",
     "0", "1", "2", "3", "4", "5", "6", "7", "8", "9", " "}

\* the character set with the "^" the character class also lists
ListedCharacters == DocumentedCharacters \cup {"^"}

HasCharOutside(s, set) == \E i \in 1..Len(s) : s[i] \notin set

\* C2, as stated: every non-empty expression with a character outside
\* + - * / % 0-9 and the space returns UseUnavailableCharacter, before any
\* token is processed.
C2_AsStated ==
    (Returned /\ Len(expression) > 0 /\ HasCharOutside(expression, DocumentedCharacters))
        => /\ ret = Err("UseUnavailableCharacter")
           /\ pc = "ret_syntax"
           /\ token = <<>>
           /\ operands = <<>>

\* C2, amended: every non-empty expression with a character outside
\* + - * / % ^ 0-9 and the space returns UseUnavailableCharacter, wherever
\* the character stands and whatever else is wrong with the expression,
\* before any token is processed.
C2_UnavailableCharacter ==
    (Returned /\ Len(expression) > 0 /\ HasCharOutside(expression, ListedCharacters))
        => /\ ret = Err("UseUnavailableCharacter")
           /\ pc = "ret_syntax"
           /\ token = <<>>
           /\ operands = <<>>

\* an operator short of operands to the left of the unavailable character,
\* which stands last
C2_Witness ==
    /\ pc = "ret_syntax"
    /\ ret = Err("UseUnavailableCharacter")
    /\ Len(expression) = 3
    /\ expression[1] = "-"
    /\ expression[3] = "["

\* C3: pn returns NotEnteredExoression exactly when the raw input has length
\* zero; an input of spaces only returns something else.
C3_NotEntered ==
    Returned => (ret = Err("NotEnteredExoression") <=> Len(expression) = 0)

C3_Witness ==
    /\ Returned
    /\ expression = <<>>
    /\ ret = Err("NotEnteredExoression")
    /\ pc = "ret_syntax"

\* a token that parse_token gives as an operator in a validated expression
IsOperatorToken(w) == ~IsLiteral(w, TRUE)

\* C4: when the scan reaches an operator token, whatever its symbol, with
\* fewer than two values on the stack, pn returns NotEnoughOperands at that
\* token, the stack untouched, and processes no token to the left of it.
C4_NotEnoughOperands ==
    [][/\ (pc = "for" /\ split_expression # <<>>
            /\ IsOperatorToken(split_expression[Len(split_expression)])
            /\ Len(operands) < 2)
          => /\ ret' = Err("NotEnoughOperands")
             /\ pc' = "ret_for"
             /\ token' = split_expression[Len(split_expression)]
             /\ operands' = operands
       /\ pc = "ret_for" => FALSE]_vars

\* an unknown symbol met with one operand, tokens left to its left
C4_Witness ==
    /\ pc = "ret_for"
    /\ ret = Err("NotEnoughOperands")
    /\ token \notin OperatorSymbols
    /\ Len(operands) = 1
    /\ split_expression # <<>>

\* C5: once every token is processed without an error, pn returns Ok(x) if
\* and only if the stack holds exactly the one value x, and FailedCalculate
\* with no value or with two or more.
C5_FinalStack ==
    pc = "ret_end" =>
        /\ ret.tag = "Ok" <=> Len(operands) = 1
        /\ ret.tag = "Ok" => ret.val = operands[1]
        /\ Len(operands) # 1 => ret = Err("FailedCalculate")

\* two operands left on the stack
C5_Witness ==
    /\ pc = "ret_end"
    /\ Len(operands) = 2
    /\ ret = Err("FailedCalculate")

\* a token that is neither a number nor one of the five operator symbols
IsUnknownSymbol(w) == ~IsLiteral(w, TRUE) /\ w \notin OperatorSymbols

HasToken(ts, P(_)) == \E i \in 1..Len(ts) : P(ts[i])

IsDocumentedUnknown(w) == IsUnknownSymbol(w) /\ ~HasCharOutside(w, DocumentedCharacters)

\* C6, as stated: every validated expression with a token of allowed
\* characters that is neither a number nor one of + - * / % fails with
\* FailedCalculate.
C6_AsStated ==
    (Returned /\ syntax_check(expression).tag = "Ok"
              /\ HasToken(Tokens, IsDocumentedUnknown))
        => ret = Err("FailedCalculate")

\* C6, amended: every validated expression with such a token fails, with
\* FailedCalculate or NotEnoughOperands; when the scan stops at such a token
\* it is FailedCalculate if at least two values are on the stack and
\* NotEnoughOperands if fewer are.
C6_UnknownSymbol ==
    (Returned /\ syntax_check(expression).tag = "Ok"
              /\ HasToken(Tokens, IsUnknownSymbol))
        => /\ ret.tag = "Err"
           /\ ret.err \in {"FailedCalculate", "NotEnoughOperands"}
           /\ (pc = "ret_for" /\ IsUnknownSymbol(token))
                 => ret.err = IF Len(operands) >= 2 THEN "FailedCalculate"
                              ELSE "NotEnoughOperands"

\* "++" met with two or more operands
C6_Witness ==
    /\ pc = "ret_for"
    /\ token = <<"+", "+">>
    /\ Len(operands) >= 2
    /\ ret = Err("FailedCalculate")

\* C7: a "/" or "%" applied with a right operand equal to zero is no error:
\* the step pushes the infinity or the NaN and the scan goes on, and a
\* well-formed expression with such an operator returns Ok.
C7_Step ==
    (/\ pc = "for" /\ split_expression # <<>>
     /\ split_expression[Len(split_expression)] \in {<<"/">>, <<"%">>}
     /\ Len(operands) >= 2
     /\ IsZero(operands[Len(operands) - 1]))
        => /\ pc' = "for"
           /\ ret' = Running
           /\ Len(operands') = Len(operands) - 1
           /\ IsNonFinite(operands'[Len(operands')])

C7_Final ==
    (Returned /\ WellFormed(Tokens, TRUE) /\ RefParse(Tokens, 1, TRUE).dz)
        => /\ pc = "ret_end"
           /\ ret.tag = "Ok"

C8_NoCrash ==
    /\ ret.tag \in {"none", "Ok", "Err"}
    /\ ret.tag = "Err" => ret.err \in PolishError
    /\ ret.tag = "Ok" => ret.val.k \in {"num", "inf", "nan"}
    /\ Returned <=> ret.tag \in {"Ok", "Err"}
    /\ Returned \/ ENABLED Next
    /\ (pc = "for" /\ split_expression # <<>>
          /\ IsOperatorToken(split_expression[Len(split_expression)])
          /\ ~NotEnough(operands))
          => InBounds(operands, 1) /\ InBounds(operands, 2)
    /\ pc = "ret_end" /\ ret.tag = "Ok" => InBounds(operands, 1)

\* an operator met with exactly one operand has returned an error
C8_Witness ==
    /\ pc = "ret_for"
    /\ token = <<"-">>
    /\ Len(operands) = 1
    /\ ret = Err("NotEnoughOperands")

\* C9: a step of the scan on an operand token appends its value and leaves
\* the elements below unchanged; on one of + - * / % met with two or more
\* values it replaces the two last pushed, top and second, by top op second
\* and leaves the elements below unchanged; a step that returns an error
\* pushes nothing.
C9_Step ==
    (pc = "for" /\ split_expression # <<>>) =>
        LET w == split_expression[Len(split_expression)]
            n == Len(operands)
        IN  /\ IsLiteral(w, TRUE) =>
                  /\ Len(operands') = n + 1
                  /\ SubSeq(operands', 1, n) = operands
                  /\ operands'[n + 1] = LiteralValue(w)
                  /\ ret' = Running
            /\ (w \in OperatorSymbols /\ n >= 2) =>
                  /\ Len(operands') = n - 1
                  /\ SubSeq(operands', 1, n - 2) = SubSeq(operands, 1, n - 2)
                  /\ operands'[n - 1] = RefApply(w, operands[n], operands[n - 1])
                  /\ ret' = Running
            /\ ret' # Running => operands' = operands

C9_StackSteps == [][C9_Step]_vars

\* "-" applied with 5 on top of -2 on top of 0: the stack is 0, 7
C9_Witness ==
    /\ pc = "for"
    /\ token = <<"-">>
    /\ operands = <<Num(1, 0, 1), Num(1, 7, 1)>>

IsNumberToken(w) == IsLiteral(w, TRUE)
IsSymbolToken(w) == ~IsLiteral(w, TRUE)

\* C10: pn returns Ok only if the tokens of the input are exactly one
\* complete prefix expression, every token that is not a number being one of
\* + - * / % and the operands one more than the operators; and every
\* validated expression whose tokens are no such expression returns an error.
C10_OnlyWellFormed ==
    Returned =>
        /\ ret.tag = "Ok" =>
              /\ WellFormed(Tokens, TRUE)
              /\ \A i \in 1..Len(Tokens) :
                    IsSymbolToken(Tokens[i]) => Tokens[i] \in OperatorSymbols
              /\ Count(Tokens, IsNumberToken) = Count(Tokens, IsSymbolToken) + 1
        /\ (syntax_check(expression).tag = "Ok" /\ ~WellFormed(Tokens, TRUE))
              => ret.tag = "Err"

\* as many operands as operators: an error
C10_Witness ==
    /\ Returned
    /\ ret.tag = "Err"
    /\ syntax_check(expression).tag = "Ok"
    /\ Len(Tokens) = 4
    /\ Count(Tokens, IsNumberToken) = 2
    /\ \A i \in 1..4 : IsSymbolToken(Tokens[i]) => Tokens[i] \in OperatorSymbols

=============================================================================
